---------------------------- MODULE Spec2Model ----------------------------
(***************************************************************************)
(* Model of the two text transformations of the calculator:               *)
(*   - ExpressionShortcuts.convert_shortcut (src/latex_pack/shortcut.py)   *)
(*   - SympyToMatlab.sympy_to_matlab (src/matlab_interface/                *)
(*     sympy_to_matlab.py)                                                 *)
(* A Python str is a sequence of one-character strings, so that           *)
(* substring search, str.replace, str.split and re.match are computed     *)
(* character by character as the interpreter computes them.               *)
(***************************************************************************)
EXTENDS Naturals, Sequences, FiniteSets

VARIABLES op, pc, text, result, expr, ret

vars == <<op, pc, text, result, expr, ret>>

(***************************************************************************)
(* Python string primitives                                                *)
(***************************************************************************)
Digits == {"0", "1", "2", "3", "4", "5", "6", "7", "8", "9"}

\* s[i:] (1-based i)
Drop(s, n) == SubSeq(s, n + 1, Len(s))

\* s.startswith(p)
StartsWith(s, p) == Len(s) >= Len(p) /\ SubSeq(s, 1, Len(p)) = p

\* p in s
Contains(s, p) == \E i \in 0..(Len(s) - Len(p)) : SubSeq(s, i + 1, i + Len(p)) = p

\* c in s, for one character c
HasChar(s, c) == \E i \in 1..Len(s) : s[i] = c

\* the least element of a non-empty set of naturals
Min(S) == CHOOSE m \in S : \A k \in S : m <= k

\* s.find(p) as a 1-based index, 0 when p does not occur in s
Find(s, p) ==
  LET hits == {i \in 1..(Len(s) - Len(p) + 1) : SubSeq(s, i, i + Len(p) - 1) = p}
  IN IF hits = {} THEN 0 ELSE Min(hits)

\* s.replace(old, new) for a non-empty old: the leftmost occurrence is replaced,
\* then the scan goes on behind it, so occurrences never overlap
RECURSIVE Replace(_, _, _)
Replace(s, old, new) ==
  LET i == Find(s, old)
  IN IF i = 0 THEN s
     ELSE SubSeq(s, 1, i - 1) \o new \o Replace(Drop(s, i + Len(old) - 1), old, new)

\* s.split(' ', 1)
SplitFirstSpace(s) ==
  LET i == Find(s, <<" ">>)
  IN IF i = 0 THEN <<s>> ELSE <<SubSeq(s, 1, i - 1), Drop(s, i)>>

\* the longest run of digits at the start of s: what a greedy \d* takes
DigitRun(s) ==
  LET stops == {i \in 1..Len(s) : s[i] \notin Digits}
  IN IF stops = {} THEN s ELSE SubSeq(s, 1, Min(stops) - 1)

\* s.count(c) for one character c
CountChar(s, c) == Cardinality({i \in 1..Len(s) : s[i] = c})

(***************************************************************************)
(* The shortcut tables, each in dict insertion order, as <<key, latex>>    *)
(***************************************************************************)
DERIVATIVE_SHORTCUTS ==
  << <<<<"d", "/", "d", "x">>, <<"\\", "f", "r", "a", "c", "{", "d", "}", "{", "d", "x", "}">>>>,
     <<<<"d", "/", "d", "y">>, <<"\\", "f", "r", "a", "c", "{", "d", "}", "{", "d", "y", "}">>>>,
     <<<<"d", "/", "d", "t">>, <<"\\", "f", "r", "a", "c", "{", "d", "}", "{", "d", "t", "}">>>>,
     <<<<"d", "2", "/", "d", "x", "2">>, <<"\\", "f", "r", "a", "c", "{", "d", "^", "2", "}", "{", "d", "x", "^", "2", "}">>>>,
     <<<<"d", "3", "/", "d", "x", "3">>, <<"\\", "f", "r", "a", "c", "{", "d", "^", "3", "}", "{", "d", "x", "^", "3", "}">>>>,
     <<<<"d", "4", "/", "d", "x", "4">>, <<"\\", "f", "r", "a", "c", "{", "d", "^", "4", "}", "{", "d", "x", "^", "4", "}">>>>,
     <<<<"d", "5", "/", "d", "x", "5">>, <<"\\", "f", "r", "a", "c", "{", "d", "^", "5", "}", "{", "d", "x", "^", "5", "}">>>> >>

INTEGRAL_SHORTCUTS ==
  << <<<<"i", "n", "t">>, <<"\\", "i", "n", "t">>>>,
     <<<<"i", "n", "t", "e", "g", "r", "a", "l">>, <<"\\", "i", "n", "t">>>>,
     <<<<"i", "i", "n", "t">>, <<"\\", "i", "i", "n", "t">>>>,
     <<<<"i", "i", "i", "n", "t">>, <<"\\", "i", "i", "i", "n", "t">>>>,
     <<<<"o", "i", "n", "t">>, <<"\\", "o", "i", "n", "t">>>> >>

FUNCTION_SHORTCUTS ==
  << <<<<"s", "q", "r", "t">>, <<"\\", "s", "q", "r", "t">>>>,
     <<<<"r", "o", "o", "t">>, <<"\\", "s", "q", "r", "t">>>>,
     <<<<"a", "b", "s">>, <<"\\", "l", "e", "f", "t", "|", "#", "\\", "r", "i", "g", "h", "t", "|">>>>,
     <<<<"s", "i", "n">>, <<"\\", "s", "i", "n">>>>,
     <<<<"c", "o", "s">>, <<"\\", "c", "o", "s">>>>,
     <<<<"t", "a", "n">>, <<"\\", "t", "a", "n">>>>,
     <<<<"c", "s", "c">>, <<"\\", "c", "s", "c">>>>,
     <<<<"s", "e", "c">>, <<"\\", "s", "e", "c">>>>,
     <<<<"c", "o", "t">>, <<"\\", "c", "o", "t">>>>,
     <<<<"a", "r", "c", "s", "i", "n">>, <<"\\", "a", "r", "c", "s", "i", "n">>>>,
     <<<<"a", "r", "c", "c", "o", "s">>, <<"\\", "a", "r", "c", "c", "o", "s">>>>,
     <<<<"a", "r", "c", "t", "a", "n">>, <<"\\", "a", "r", "c", "t", "a", "n">>>>,
     <<<<"l", "n">>, <<"\\", "l", "n">>>>,
     <<<<"l", "g">>, <<"\\", "l", "o", "g">>>>,
     <<<<"l", "o", "g">>, <<"\\", "l", "o", "g">>>>,
     <<<<"l", "o", "g", "1", "0">>, <<"\\", "l", "o", "g", "_", "{", "1", "0", "}">>>>,
     <<<<"l", "o", "g", "2">>, <<"\\", "l", "o", "g", "_", "{", "2", "}">>>> >>

FRACTION_SHORTCUTS ==
  << <<<<"/", "/">>, <<"\\", "f", "r", "a", "c", "{", "#", "}", "{", "#", "}">>>> >>

GREEK_SHORTCUTS ==
  << <<<<"a", "l", "p", "h", "a">>, <<"\\", "a", "l", "p", "h", "a">>>>,
     <<<<"b", "e", "t", "a">>, <<"\\", "b", "e", "t", "a">>>>,
     <<<<"g", "a", "m", "m", "a">>, <<"\\", "g", "a", "m", "m", "a">>>>,
     <<<<"d", "e", "l", "t", "a">>, <<"\\", "d", "e", "l", "t", "a">>>>,
     <<<<"e", "p", "s", "i", "l", "o", "n">>, <<"\\", "e", "p", "s", "i", "l", "o", "n">>>>,
     <<<<"z", "e", "t", "a">>, <<"\\", "z", "e", "t", "a">>>>,
     <<<<"e", "t", "a">>, <<"\\", "e", "t", "a">>>>,
     <<<<"t", "h", "e", "t", "a">>, <<"\\", "t", "h", "e", "t", "a">>>>,
     <<<<"i", "o", "t", "a">>, <<"\\", "i", "o", "t", "a">>>>,
     <<<<"k", "a", "p", "p", "a">>, <<"\\", "k", "a", "p", "p", "a">>>>,
     <<<<"l", "a", "m", "b", "d", "a">>, <<"\\", "l", "a", "m", "b", "d", "a">>>>,
     <<<<"m", "u">>, <<"\\", "m", "u">>>>,
     <<<<"n", "u">>, <<"\\", "n", "u">>>>,
     <<<<"x", "i">>, <<"\\", "x", "i">>>>,
     <<<<"p", "i">>, <<"\\", "p", "i">>>>,
     <<<<"r", "h", "o">>, <<"\\", "r", "h", "o">>>>,
     <<<<"s", "i", "g", "m", "a">>, <<"\\", "s", "i", "g", "m", "a">>>>,
     <<<<"t", "a", "u">>, <<"\\", "t", "a", "u">>>>,
     <<<<"u", "p", "s", "i", "l", "o", "n">>, <<"\\", "u", "p", "s", "i", "l", "o", "n">>>>,
     <<<<"p", "h", "i">>, <<"\\", "p", "h", "i">>>>,
     <<<<"c", "h", "i">>, <<"\\", "c", "h", "i">>>>,
     <<<<"p", "s", "i">>, <<"\\", "p", "s", "i">>>>,
     <<<<"o", "m", "e", "g", "a">>, <<"\\", "o", "m", "e", "g", "a">>>> >>

OPERATOR_SHORTCUTS ==
  << <<<<"s", "u", "m">>, <<"\\", "s", "u", "m">>>>,
     <<<<"p", "r", "o", "d">>, <<"\\", "p", "r", "o", "d">>>>,
     <<<<"l", "i", "m">>, <<"\\", "l", "i", "m">>>>,
     <<<<"t", "o">>, <<"\\", "t", "o">>>>,
     <<<<"r", "i", "g", "h", "t", "a", "r", "r", "o", "w">>, <<"\\", "r", "i", "g", "h", "t", "a", "r", "r", "o", "w">>>>,
     <<<<"l", "e", "f", "t", "a", "r", "r", "o", "w">>, <<"\\", "l", "e", "f", "t", "a", "r", "r", "o", "w">>>>,
     <<<<"i", "n", "f", "t", "y">>, <<"\\", "i", "n", "f", "t", "y">>>>,
     <<<<"i", "n", "f", "i", "n", "i", "t", "y">>, <<"\\", "i", "n", "f", "t", "y">>>> >>

\* the value d holds for key k
ValueOf(d, k) == d[CHOOSE i \in 1..Len(d) : d[i][1] = k][2]

HasKey(d, k) == \E i \in 1..Len(d) : d[i][1] = k

\* d.update(e): a key already in d keeps its place and takes the value of e,
\* the new keys follow in the order of e
DictUpdate(d, e) ==
  [i \in 1..Len(d) |-> IF HasKey(e, d[i][1]) THEN <<d[i][1], ValueOf(e, d[i][1])>> ELSE d[i]]
    \o SelectSeq(e, LAMBDA pair : ~HasKey(d, pair[1]))

get_all_shortcuts ==
  DictUpdate(DictUpdate(DictUpdate(DictUpdate(DictUpdate(DictUpdate(<<>>,
    DERIVATIVE_SHORTCUTS), INTEGRAL_SHORTCUTS), FUNCTION_SHORTCUTS),
    FRACTION_SHORTCUTS), GREEK_SHORTCUTS), OPERATOR_SHORTCUTS)

DerivVars == {"x", "y", "z"}

\* re.match(r'd(\d*)/d([xyz])(\d*)', s): a match object or None
MatchSlash(s) ==
  IF s # <<>> /\ s[1] = "d"
  THEN LET n == DigitRun(Tail(s))
           r == Drop(s, 1 + Len(n))
       IN IF Len(r) >= 3 /\ r[1] = "/" /\ r[2] = "d" /\ r[3] \in DerivVars
          THEN [matched |-> TRUE, g1 |-> n, g2 |-> <<r[3]>>, g3 |-> DigitRun(Drop(r, 3))]
          ELSE [matched |-> FALSE, g1 |-> <<>>, g2 |-> <<>>, g3 |-> <<>>]
  ELSE [matched |-> FALSE, g1 |-> <<>>, g2 |-> <<>>, g3 |-> <<>>]

\* re.match(r'd(\d*)([xyz])', s)
MatchPlain(s) ==
  IF s # <<>> /\ s[1] = "d"
  THEN LET n == DigitRun(Tail(s))
           r == Drop(s, 1 + Len(n))
       IN IF Len(r) >= 1 /\ r[1] \in DerivVars
          THEN [matched |-> TRUE, g1 |-> n, g2 |-> <<r[1]>>, g3 |-> <<>>]
          ELSE [matched |-> FALSE, g1 |-> <<>>, g2 |-> <<>>, g3 |-> <<>>]
  ELSE [matched |-> FALSE, g1 |-> <<>>, g2 |-> <<>>, g3 |-> <<>>]

\* f"\\frac{{d^{order}}}{{d{var}^{order}}} {function_part}"
FracTemplate(order, var, function_part) ==
  <<"\\", "f", "r", "a", "c", "{", "d", "^">> \o order \o <<"}", "{", "d">> \o var
    \o <<"^">> \o order \o <<"}", " ">> \o function_part

\* the guard of the derivative branch together with len(parts) == 2
TakesDerivativeBranch(t) ==
  /\ StartsWith(t, <<"d">>)
  /\ (HasChar(t, "/") \/ (Len(t) >= 2 /\ t[2] \in Digits))
  /\ Len(SplitFirstSpace(t)) = 2

\* DerivativeBranch with the order below the bar read from the third group
DerivativeBranchDenominatorOrder(t) ==
  LET parts == SplitFirstSpace(t)
      order_match == IF HasChar(parts[1], "/") THEN MatchSlash(parts[1]) ELSE MatchPlain(parts[1])
      order == IF order_match.g1 # <<>> THEN order_match.g1 ELSE <<"1">>
      below == IF order_match.g3 # <<>> THEN order_match.g3 ELSE order
  IN IF order_match.matched
     THEN <<"\\", "f", "r", "a", "c", "{", "d", "^">> \o order \o <<"}", "{", "d">>
            \o order_match.g2 \o <<"^">> \o below \o <<"}", " ">> \o parts[2]
     ELSE t

\* DerivativeBranch with result not preset to the text before the branch
DerivativeBranchNoPreset(t) ==
  LET parts == SplitFirstSpace(t)
      order_match == IF HasChar(parts[1], "/") THEN MatchSlash(parts[1]) ELSE MatchPlain(parts[1])
      order == IF order_match.g1 # <<>> THEN order_match.g1 ELSE <<"1">>
  IN IF order_match.matched THEN FracTemplate(order, order_match.g2, parts[2]) ELSE <<>>

\* the body of the derivative branch, up to its return
DerivativeBranch(t) ==
  LET parts == SplitFirstSpace(t)
      derivative_part == parts[1]
      function_part == parts[2]
      order_match == IF HasChar(derivative_part, "/")
                     THEN MatchSlash(derivative_part)
                     ELSE MatchPlain(derivative_part)
      order == IF order_match.g1 # <<>> THEN order_match.g1 ELSE <<"1">>
  IN IF order_match.matched
     THEN FracTemplate(order, order_match.g2, function_part)
     ELSE t

\* ApplyShortcut without the test for the placeholder
ApplyShortcutAnyTemplate(res, pair) ==
  IF Contains(res, pair[1]) THEN Replace(res, pair[1], pair[2]) ELSE res

\* one pass of the replacement loop
ApplyShortcut(res, pair) ==
  IF Contains(res, pair[1]) /\ ~HasChar(pair[2], "#")
  THEN Replace(res, pair[1], pair[2])
  ELSE res

\* the loop over shortcuts.items(), entries i..j in dict order. The range is
\* halved and the first half is computed before the second is entered, which
\* keeps the evaluation shallow; the entries are applied one after the other.
RECURSIVE ReplaceLoop(_, _, _, _)
ReplaceLoop(res, shortcuts, i, j) ==
  IF i > j THEN res
  ELSE IF i = j THEN ApplyShortcut(res, shortcuts[i])
  ELSE LET m == (i + j) \div 2
           first == ReplaceLoop(res, shortcuts, i, m)
       IN IF first = res THEN ReplaceLoop(res, shortcuts, m + 1, j)
          ELSE ReplaceLoop(first, shortcuts, m + 1, j)

convert_shortcut(t) ==
  IF TakesDerivativeBranch(t) THEN DerivativeBranch(t)
  ELSE ReplaceLoop(t, get_all_shortcuts, 1, Len(get_all_shortcuts))

(***************************************************************************)
(* Symbolic expressions, as the converter sees them.                      *)
(*   Generic:    str is the library's string form of the expression       *)
(*   Integral:   integrand is args[0], limits0 is limits[0]                *)
(*   Derivative: dexpr is expr.expr, slot is variables[0] (a pair          *)
(*               (var, order) or a bare variable), with derivative_count   *)
(*   Eq:         lhs, rhs                                                  *)
(*   Function:   name is func.__name__, args the arguments                 *)
(*   List:       a Python list of expressions                              *)
(***************************************************************************)
Generic(s) == [tag |-> "Generic", str |-> s]

Integral(f, lim) == [tag |-> "Integral", integrand |-> f, limits0 |-> lim]

Derivative(f, sl, n) == [tag |-> "Derivative", dexpr |-> f, slot |-> sl, derivative_count |-> n]

Eq(l, r) == [tag |-> "Eq", lhs |-> l, rhs |-> r]

Function(nm, as) == [tag |-> "Function", name |-> nm, args |-> as]

List(es) == [tag |-> "List", elems |-> es]

PairSlot(v, n) == [pair |-> TRUE, var |-> v, order |-> n]

VarSlot(v) == [pair |-> FALSE, var |-> v, order |-> 0]

\* the outcome of a call: a returned str, or a raised exception
Ok(s) == [exc |-> "", str |-> s]

Raise(m) == [exc |-> m, str |-> <<>>]

EmptyExpression == "ValueError: Empty expression list"

NotEnoughValues == "ValueError: not enough values to unpack"

TooManyValues == "ValueError: too many values to unpack"

DigitChar(d) ==
  CASE d = 0 -> "0" [] d = 1 -> "1" [] d = 2 -> "2" [] d = 3 -> "3" [] d = 4 -> "4"
    [] d = 5 -> "5" [] d = 6 -> "6" [] d = 7 -> "7" [] d = 8 -> "8" [] OTHER -> "9"

\* f"{n}" for a natural number n
RECURSIVE IntToStr(_)
IntToStr(n) ==
  IF n < 10 THEN <<DigitChar(n)>> ELSE IntToStr(n \div 10) \o <<DigitChar(n % 10)>>

\* ', '.join(parts)
RECURSIVE Join(_)
Join(parts) ==
  IF parts = <<>> THEN <<>>
  ELSE IF Len(parts) = 1 THEN parts[1]
  ELSE parts[1] \o <<",", " ">> \o Join(Tail(parts))

\* str(expr): the library's default string form
RECURSIVE sympy_to_str(_)
sympy_to_str(e) ==
  CASE e.tag = "Generic" -> e.str
    [] e.tag = "Integral" ->
         <<"I", "n", "t", "e", "g", "r", "a", "l", "(">> \o sympy_to_str(e.integrand)
           \o <<",", " ">>
           \o (IF Len(e.limits0) = 1 THEN e.limits0[1]
               ELSE <<"(">> \o Join(e.limits0) \o <<")">>)
           \o <<")">>
    [] e.tag = "Derivative" ->
         <<"D", "e", "r", "i", "v", "a", "t", "i", "v", "e", "(">> \o sympy_to_str(e.dexpr)
           \o <<",", " ">>
           \o (IF e.slot.pair
               THEN <<"(">> \o e.slot.var \o <<",", " ">> \o IntToStr(e.slot.order) \o <<")">>
               ELSE IF e.derivative_count = 1 THEN e.slot.var
               ELSE <<"(">> \o e.slot.var \o <<",", " ">> \o IntToStr(e.derivative_count) \o <<")">>)
           \o <<")">>
    [] e.tag = "Eq" ->
         <<"E", "q", "(">> \o sympy_to_str(e.lhs) \o <<",", " ">> \o sympy_to_str(e.rhs) \o <<")">>
    [] e.tag = "Function" ->
         e.name \o <<"(">> \o Join([i \in 1..Len(e.args) |-> sympy_to_str(e.args[i])]) \o <<")">>
    [] OTHER ->
         <<"[">> \o Join([i \in 1..Len(e.elems) |-> sympy_to_str(e.elems[i])]) \o <<"]">>

\* _process_expression_string with '*' and '/' in the replacements dict as well
process_expression_string_all_ops(e) ==
  Replace(Replace(Replace(sympy_to_str(e), <<"*", "*">>, <<"^">>), <<"*">>, <<".", "*">>),
          <<"/">>, <<".", "/">>)

\* the replacements dict of _process_expression_string, applied in order
process_expression_string(e) == Replace(sympy_to_str(e), <<"*", "*">>, <<"^">>)

\* _handle_list_expression that hands an empty list on instead of raising
handle_list_expression_no_raise(e) ==
  IF e.tag = "List" /\ e.elems # <<>> THEN [exc |-> "", val |-> e.elems[1]]
  ELSE [exc |-> "", val |-> e]

\* an outcome that is the empty list's error, or the expression to convert
handle_list_expression(e) ==
  IF e.tag = "List"
  THEN IF e.elems = <<>> THEN [exc |-> EmptyExpression, val |-> e]
       ELSE [exc |-> "", val |-> e.elems[1]]
  ELSE [exc |-> "", val |-> e]

\* function_mappings without the entry for ln
function_mappings_without_ln(nm) ==
  CASE nm = <<"a", "r", "c", "s", "i", "n">> -> <<"a", "s", "i", "n">>
    [] nm = <<"a", "r", "c", "c", "o", "s">> -> <<"a", "c", "o", "s">>
    [] nm = <<"a", "r", "c", "t", "a", "n">> -> <<"a", "t", "a", "n">>
    [] OTHER -> nm

\* function_mappings.get(func_name, func_name)
function_mappings(nm) ==
  CASE nm = <<"s", "i", "n">> -> <<"s", "i", "n">>
    [] nm = <<"c", "o", "s">> -> <<"c", "o", "s">>
    [] nm = <<"t", "a", "n">> -> <<"t", "a", "n">>
    [] nm = <<"c", "s", "c">> -> <<"c", "s", "c">>
    [] nm = <<"s", "e", "c">> -> <<"s", "e", "c">>
    [] nm = <<"c", "o", "t">> -> <<"c", "o", "t">>
    [] nm = <<"a", "r", "c", "s", "i", "n">> -> <<"a", "s", "i", "n">>
    [] nm = <<"a", "r", "c", "c", "o", "s">> -> <<"a", "c", "o", "s">>
    [] nm = <<"a", "r", "c", "t", "a", "n">> -> <<"a", "t", "a", "n">>
    [] nm = <<"l", "n">> -> <<"l", "o", "g">>
    [] nm = <<"l", "o", "g", "1", "0">> -> <<"l", "o", "g", "1", "0">>
    [] nm = <<"l", "o", "g", "2">> -> <<"l", "o", "g", "2">>
    [] OTHER -> nm

\* the exception of the first outcome that raised, "" when none did
FirstRaised(outs) ==
  LET bad == {i \in 1..Len(outs) : outs[i].exc # ""}
  IN IF bad = {} THEN "" ELSE outs[Min(bad)].exc

RECURSIVE sympy_to_matlab(_)
RECURSIVE handle_integral(_)
RECURSIVE handle_derivative(_)
RECURSIVE handle_equation(_)
RECURSIVE handle_function(_)

\* _handle_integral with the variable read from the last entry of limits[0]
handle_integral_last_entry(e) ==
  LET integrand_str == IF e.integrand.tag = "Integral"
                       THEN sympy_to_matlab(e.integrand)
                       ELSE Ok(sympy_to_str(e.integrand))
      var_info == e.limits0
  IN IF integrand_str.exc # "" THEN integrand_str
     ELSE IF Len(var_info) = 1
     THEN Ok(<<"i", "n", "t", "(">> \o integrand_str.str \o <<",", " ", "'">>
               \o var_info[1] \o <<"'", ")">>)
     ELSE IF Len(var_info) < 3 THEN Raise(NotEnoughValues)
     ELSE IF Len(var_info) > 3 THEN Raise(TooManyValues)
     ELSE Ok(<<"i", "n", "t", "(">> \o integrand_str.str \o <<",", " ", "'">>
               \o var_info[3] \o <<"'", ",", " ">> \o var_info[1] \o <<",", " ">>
               \o var_info[2] \o <<")">>)

\* _handle_integral: only an integrand that is an Integral is converted again,
\* any other is taken in its string form; then limits[0] is unpacked
handle_integral(e) ==
  LET integrand_str == IF e.integrand.tag = "Integral"
                       THEN sympy_to_matlab(e.integrand)
                       ELSE Ok(sympy_to_str(e.integrand))
      var_info == e.limits0
  IN IF integrand_str.exc # "" THEN integrand_str
     ELSE IF Len(var_info) = 1
     THEN Ok(<<"i", "n", "t", "(">> \o integrand_str.str \o <<",", " ", "'">>
               \o var_info[1] \o <<"'", ")">>)
     ELSE IF Len(var_info) < 3 THEN Raise(NotEnoughValues)
     ELSE IF Len(var_info) > 3 THEN Raise(TooManyValues)
     ELSE Ok(<<"i", "n", "t", "(">> \o integrand_str.str \o <<",", " ", "'">>
               \o var_info[1] \o <<"'", ",", " ">> \o var_info[2] \o <<",", " ">>
               \o var_info[3] \o <<")">>)

\* _handle_derivative
handle_derivative(e) ==
  LET var == e.slot.var
      order == IF e.slot.pair THEN e.slot.order ELSE e.derivative_count
      func_str == sympy_to_matlab(e.dexpr)
  IN IF func_str.exc # "" THEN func_str
     ELSE IF order = 1
     THEN Ok(<<"d", "i", "f", "f", "(">> \o func_str.str \o <<",", " ", "'">> \o var
               \o <<"'", ")">>)
     ELSE Ok(<<"d", "i", "f", "f", "(">> \o func_str.str \o <<",", " ", "'">> \o var
               \o <<"'", ",", " ">> \o IntToStr(order) \o <<")">>)

\* _handle_equation with the sides joined by a single '='
handle_equation_assign(e) ==
  LET l == sympy_to_matlab(e.lhs)
      r == sympy_to_matlab(e.rhs)
  IN IF l.exc # "" THEN l
     ELSE IF r.exc # "" THEN r
     ELSE Ok(l.str \o <<" ", "=", " ">> \o r.str)

\* _handle_equation: the left side is converted first, an error of either ends the call
handle_equation(e) ==
  LET l == sympy_to_matlab(e.lhs)
      r == sympy_to_matlab(e.rhs)
  IN IF l.exc # "" THEN l
     ELSE IF r.exc # "" THEN r
     ELSE Ok(l.str \o <<" ", "=", "=", " ">> \o r.str)

\* _handle_function: the arguments are converted in order, the first error ends the call
handle_function(e) ==
  LET func_name == e.name
      matlab_func == function_mappings(func_name)
      outs == [i \in 1..Len(e.args) |-> sympy_to_matlab(e.args[i])]
      matlab_args == Join([i \in 1..Len(outs) |-> outs[i].str])
  IN IF FirstRaised(outs) # "" THEN Raise(FirstRaised(outs))
     ELSE IF func_name = <<"a", "b", "s">>
     THEN Ok(<<"a", "b", "s", "(">> \o matlab_args \o <<")">>)
     ELSE Ok(matlab_func \o <<"(">> \o matlab_args \o <<")">>)

\* sympy_to_matlab: unwrap a list once, then dispatch on the type
sympy_to_matlab(e0) ==
  LET u == handle_list_expression(e0)
      e == u.val
  IN IF u.exc # "" THEN Raise(u.exc)
     ELSE CASE e.tag = "Integral" -> handle_integral(e)
            [] e.tag = "Derivative" -> handle_derivative(e)
            [] e.tag = "Eq" -> handle_equation(e)
            [] e.tag = "Function" -> handle_function(e)
            [] OTHER -> Ok(process_expression_string(e))

(***************************************************************************)
(* Bounds of the inputs                                                    *)
(***************************************************************************)
MaxDigits == 1

MaxParts == 3

MaxOrder == 3

MaxDepth == 2

(***************************************************************************)
(* Input texts of convert_shortcut                                         *)
(***************************************************************************)
\* all sequences of at most n elements of S, each element a str, concatenated
RECURSIVE Concats(_, _)
Concats(S, n) ==
  IF n = 0 THEN {<<>>}
  ELSE LET shorter == Concats(S, n - 1)
       IN shorter \cup {p \o w : p \in S, w \in shorter}

KeyTexts == {get_all_shortcuts[i][1] : i \in 1..Len(get_all_shortcuts)}

DigitStrs == Concats({<<"2">>, <<"3">>}, MaxDigits)

Rests ==
  { <<>>, <<"x", "^", "2">>, <<"x", "^", "3">>, <<"s", "i", "n", " ", "x">>,
    <<"a", "l", "p", "h", "a">>, <<"#">> }

\* d<n>/d<v><m>, d<n><v><m>, and near misses of both, with and without a rest
DerivTexts ==
  { <<"d">> \o n \o sep \o v \o m \o junk \o tail :
      n \in DigitStrs, m \in DigitStrs,
      sep \in {<<>>, <<"/">>, <<"/", "d">>},
      v \in {<<"x">>, <<"y">>, <<"z">>, <<"w">>},
      junk \in {<<>>, <<"#">>},
      tail \in {<<>>} \cup {<<" ">> \o r : r \in Rests} }

Pieces ==
  { <<"d">>, <<"2">>, <<"/">>, <<" ">>, <<"#">>, <<"x">>, <<"q">>,
    <<"s", "i", "n">>, <<"a", "b", "s">>, <<"/", "/">>, <<"i", "n", "t">>,
    <<"d", "e", "l", "t", "a">> }

Words == Concats(Pieces, MaxParts)

TextInputs == KeyTexts \cup DerivTexts \cup Words

(***************************************************************************)
(* Input expressions of sympy_to_matlab                                    *)
(***************************************************************************)
sx == <<"x">>

GenericStrs ==
  { <<"x">>, <<"x", "*", "*", "2">>, <<"x", "*", "*", "2", " ", "+", " ", "1">>,
    <<"2", "*", "x", "/", "y">> }

Leaves == {Generic(s) : s \in GenericStrs} \cup {List(<<>>)}

Limits == {<<sx>>, <<sx, <<"0">>, <<"1">>>>, <<sx, <<"0">>>>}

\* variables[0] and derivative_count: a pair carries its own order
DerivShapes ==
  {<<PairSlot(sx, n), n>> : n \in 1..MaxOrder} \cup {<<VarSlot(sx), n>> : n \in 1..MaxOrder}

AllNames ==
  { <<"s", "i", "n">>, <<"c", "o", "s">>, <<"t", "a", "n">>, <<"c", "s", "c">>,
    <<"s", "e", "c">>, <<"c", "o", "t">>, <<"a", "r", "c", "s", "i", "n">>,
    <<"a", "r", "c", "c", "o", "s">>, <<"a", "r", "c", "t", "a", "n">>, <<"l", "n">>,
    <<"l", "o", "g", "1", "0">>, <<"l", "o", "g", "2">>, <<"a", "b", "s">>,
    <<"A", "b", "s">>, <<"f">> }

Partners ==
  { Generic(<<"x", "*", "*", "2">>), List(<<>>), Function(<<"l", "n">>, <<Generic(sx)>>) }

\* the expressions built in one step from the expressions of S
Wrap(S) ==
  {Integral(f, lim) : f \in S, lim \in Limits}
    \cup {Derivative(f, VarSlot(sx), 1) : f \in S}
    \cup {Derivative(f, PairSlot(sx, 2), 2) : f \in S}
    \cup {Eq(l, r) : l \in S, r \in Partners}
    \cup {Eq(l, r) : l \in Partners, r \in S}
    \cup {Function(<<"a", "r", "c", "s", "i", "n">>, <<a>>) : a \in S}
    \cup {Function(<<"f">>, <<a, b>>) : a \in S, b \in Partners}
    \cup {Function(<<"f">>, <<a, b>>) : a \in Partners, b \in S}
    \cup {List(<<a>>) : a \in S}
    \cup {List(<<a, Generic(sx)>>) : a \in S}

RECURSIVE ExprsOfDepth(_)
ExprsOfDepth(n) ==
  IF n = 0 THEN Leaves
  ELSE LET S == ExprsOfDepth(n - 1) IN S \cup Wrap(S)

\* the expressions every order, every function name and every pair of equation
\* sides are tried on
Base == ExprsOfDepth(1)

Sides ==
  Partners \cup
  { Generic(<<"x", "*", "*", "2", " ", "+", " ", "1">>),
    Integral(Generic(<<"x", "*", "*", "2">>), <<sx, <<"0">>, <<"1">>>>),
    Integral(Generic(sx), <<sx, <<"0">>>>),
    Derivative(Generic(<<"x", "*", "*", "2">>), VarSlot(sx), 1),
    Function(<<"a", "r", "c", "s", "i", "n">>, <<Generic(sx)>>) }

\* limit tuples in x and in y, for integrals nested in integrals
NestedLimits == Limits \cup {<<<<"y">>>>, <<<<"y">>, <<"a">>, <<"b">>>>}

Integrands == {Generic(sx), Generic(<<"x", "*", "*", "2">>)}

\* integrals nested two and three deep, each level with its own limit tuple
NestedIntegrals ==
  LET two == {Integral(Integral(g, l1), l2) : g \in Integrands, l1 \in NestedLimits, l2 \in NestedLimits}
  IN two \cup {Integral(f, l3) : f \in two, l3 \in NestedLimits}

ExprInputs ==
  ExprsOfDepth(MaxDepth)
    \cup {Derivative(f, sh[1], sh[2]) : f \in Base, sh \in DerivShapes}
    \cup {Function(nm, <<a>>) : nm \in AllNames, a \in Base}
    \cup {Eq(l, r) : l \in Sides, r \in Sides}
    \cup NestedIntegrals

NoExpr == [tag |-> "None"]

NoRet == [exc |-> "", str |-> <<>>]

(***************************************************************************)
(* The state machine: one call of one of the two operations                *)
(***************************************************************************)
Init ==
  /\ pc = "call"
  /\ \/ /\ op = "convert_shortcut"
        /\ text \in TextInputs
        /\ expr = NoExpr
     \/ /\ op = "sympy_to_matlab"
        /\ expr \in ExprInputs
        /\ text = <<>>
  /\ result = <<>>
  /\ ret = NoRet

\* convert_shortcut returning from the derivative branch
ConvertDerivative ==
  /\ pc = "call" /\ op = "convert_shortcut"
  /\ TakesDerivativeBranch(text)
  /\ result' = convert_shortcut(text)
  /\ pc' = "return"
  /\ UNCHANGED <<op, text, expr, ret>>

\* convert_shortcut returning after the replacement loop
ConvertGeneral ==
  /\ pc = "call" /\ op = "convert_shortcut"
  /\ ~TakesDerivativeBranch(text)
  /\ result' = convert_shortcut(text)
  /\ pc' = "return"
  /\ UNCHANGED <<op, text, expr, ret>>

\* the tag sympy_to_matlab dispatches on, after the list is unwrapped
DispatchTag(e) ==
  LET u == handle_list_expression(e)
  IN IF u.exc # "" THEN "raise"
     ELSE IF u.val.tag \in {"Integral", "Derivative", "Eq", "Function"} THEN u.val.tag
     ELSE "other"

\* sympy_to_matlab on an empty list: _handle_list_expression raises
ConvertEmptyList ==
  /\ pc = "call" /\ op = "sympy_to_matlab"
  /\ DispatchTag(expr) = "raise"
  /\ ret' = sympy_to_matlab(expr)
  /\ pc' = "return"
  /\ UNCHANGED <<op, text, expr, result>>

\* sympy_to_matlab taking the Integral branch
ConvertIntegral ==
  /\ pc = "call" /\ op = "sympy_to_matlab"
  /\ DispatchTag(expr) = "Integral"
  /\ ret' = sympy_to_matlab(expr)
  /\ pc' = "return"
  /\ UNCHANGED <<op, text, expr, result>>

\* sympy_to_matlab taking the Derivative branch
ConvertDerivativeExpr ==
  /\ pc = "call" /\ op = "sympy_to_matlab"
  /\ DispatchTag(expr) = "Derivative"
  /\ ret' = sympy_to_matlab(expr)
  /\ pc' = "return"
  /\ UNCHANGED <<op, text, expr, result>>

\* sympy_to_matlab taking the Eq branch
ConvertEquation ==
  /\ pc = "call" /\ op = "sympy_to_matlab"
  /\ DispatchTag(expr) = "Eq"
  /\ ret' = sympy_to_matlab(expr)
  /\ pc' = "return"
  /\ UNCHANGED <<op, text, expr, result>>

\* sympy_to_matlab taking the Function branch
ConvertFunction ==
  /\ pc = "call" /\ op = "sympy_to_matlab"
  /\ DispatchTag(expr) = "Function"
  /\ ret' = sympy_to_matlab(expr)
  /\ pc' = "return"
  /\ UNCHANGED <<op, text, expr, result>>

\* sympy_to_matlab on any other expression: _process_expression_string
ConvertOther ==
  /\ pc = "call" /\ op = "sympy_to_matlab"
  /\ DispatchTag(expr) = "other"
  /\ ret' = sympy_to_matlab(expr)
  /\ pc' = "return"
  /\ UNCHANGED <<op, text, expr, result>>

Next ==
  \/ ConvertDerivative
  \/ ConvertGeneral
  \/ ConvertEmptyList
  \/ ConvertIntegral
  \/ ConvertDerivativeExpr
  \/ ConvertEquation
  \/ ConvertFunction
  \/ ConvertOther

Spec == Init /\ [][Next]_vars

Returned(o) == pc = "return" /\ op = o

(***************************************************************************)
(* Properties                                                              *)
(***************************************************************************)
HashFree(pair) == ~HasChar(pair[2], "#")

\* the keys of the merged table whose replacement holds no placeholder
PlainKeys == {get_all_shortcuts[i][1] : i \in {j \in 1..Len(get_all_shortcuts) : HashFree(get_all_shortcuts[j])}}

\* C1: an Integral whose integrand is the power x**2 (not an Integral) is
\* written with ^: the indefinite integral in x gives int(x^2, 'x'), the
\* definite one from 0 to 1 gives int(x^2, 'x', 0, 1), and no ** is in the output.
C1_IntegralPowerCaret ==
  (Returned("sympy_to_matlab") /\ expr.tag = "Integral" /\ expr.integrand = Generic(<<"x", "*", "*", "2">>)) =>
    /\ expr.limits0 = <<sx>> => ret = Ok(<<"i", "n", "t", "(", "x", "^", "2", ",", " ", "'", "x", "'", ")">>)
    /\ expr.limits0 = <<sx, <<"0">>, <<"1">>>> => ret = Ok(<<"i", "n", "t", "(", "x", "^", "2", ",", " ", "'", "x", "'", ",", " ", "0", ",", " ", "1", ")">>)
    /\ ~Contains(ret.str, <<"*", "*">>)

\* C2: for every key t of the merged table whose replacement r has no #,
\* convert_shortcut(t) is exactly r, and t occurs in the output only when t
\* is a strict substring of r.
C2_KeyGivesReplacement ==
  (Returned("convert_shortcut") /\ text \in PlainKeys) =>
    LET r == ValueOf(get_all_shortcuts, text)
    IN /\ result = r
       /\ Contains(result, text) => (Contains(r, text) /\ r # text)

\* C3: d<n>/d<v><m> <rest>, v one of x, y, z, gives \frac{d^k}{d<v>^k} <rest>
\* with k = n, or 1 when n is absent, the same k above and below, and <rest>
\* copied as it is.
C3_DerivativeNotation ==
  Returned("convert_shortcut") =>
    \A n \in DigitStrs, m \in DigitStrs, v \in {<<"x">>, <<"y">>, <<"z">>} :
      LET head == <<"d">> \o n \o <<"/", "d">> \o v \o m \o <<" ">>
          k == IF n = <<>> THEN <<"1">> ELSE n
      IN StartsWith(text, head) =>
           result = <<"\\", "f", "r", "a", "c", "{", "d", "^">> \o k \o <<"}", "{", "d">> \o v \o <<"^">> \o k \o <<"}", " ">> \o Drop(text, Len(head))

C3_Witness ==
  /\ Returned("convert_shortcut")
  /\ text = <<"d", "2", "/", "d", "x", "3", " ", "s", "i", "n", " ", "x">>
  /\ result = <<"\\", "f", "r", "a", "c", "{", "d", "^", "2", "}", "{", "d", "x", "^", "2", "}", " ", "s", "i", "n", " ", "x">>

\* the expression sympy_to_matlab dispatches on: the first element of a list
Dispatched(e) == IF e.tag = "List" /\ e.elems # <<>> THEN e.elems[1] ELSE e

\* the sub-expressions a handler hands back to sympy_to_matlab, in call order
SubConversions(e) ==
  CASE e.tag = "Integral" -> IF e.integrand.tag = "Integral" THEN <<e.integrand>> ELSE <<>>
    [] e.tag = "Derivative" -> <<e.dexpr>>
    [] e.tag = "Eq" -> <<e.lhs, e.rhs>>
    [] e.tag = "Function" -> e.args
    [] OTHER -> <<>>

\* the outcome the first failing sub-conversion of e imposes, NoRet when none fails
FirstFailure(e) ==
  LET subs == SubConversions(e)
      outs == [i \in 1..Len(subs) |-> sympy_to_matlab(subs[i])]
      bad == {i \in 1..Len(subs) : outs[i].exc # ""}
  IN IF bad = {} THEN NoRet ELSE Raise(outs[Min(bad)].exc)

\* C4: a Derivative gives diff(<func>, '<var>') for order 1 and
\* diff(<func>, '<var>', <order>) otherwise, <func> the full recursive
\* conversion of the differentiated expression, so that a power inside it is
\* written ^; (var, order) is the pair of the first variable slot, or the slot
\* and the derivative count.
C4_DerivativeForm ==
  (Returned("sympy_to_matlab") /\ expr.tag = "Derivative") =>
    LET func == sympy_to_matlab(expr.dexpr)
        order == IF expr.slot.pair THEN expr.slot.order ELSE expr.derivative_count
        head == <<"d", "i", "f", "f", "(">> \o func.str \o <<",", " ", "'">> \o expr.slot.var \o <<"'">>
    IN IF func.exc # "" THEN ret = func
       ELSE /\ ret = Ok(IF order = 1 THEN head \o <<")">> ELSE head \o <<",", " ">> \o IntToStr(order) \o <<")">>)
            /\ ~Contains(ret.str, <<"*", "*">>)

\* the rename table as the documentation of the converter states it
C5_Rename(nm) ==
  CASE nm = <<"a", "r", "c", "s", "i", "n">> -> <<"a", "s", "i", "n">>
    [] nm = <<"a", "r", "c", "c", "o", "s">> -> <<"a", "c", "o", "s">>
    [] nm = <<"a", "r", "c", "t", "a", "n">> -> <<"a", "t", "a", "n">>
    [] nm = <<"l", "n">> -> <<"l", "o", "g">>
    [] OTHER -> nm

\* C5: a FunctionCall gives <name'>(<args>), name' the image of the name under
\* the rename table, an unlisted name unchanged, abs always abs(<args>), and
\* <args> the conversions of the arguments in their order, joined with ", ".
C5_FunctionForm ==
  (Returned("sympy_to_matlab") /\ expr.tag = "Function") =>
    LET outs == [i \in 1..Len(expr.args) |-> sympy_to_matlab(expr.args[i])]
        joined == Join([i \in 1..Len(outs) |-> outs[i].str])
    IN /\ IF FirstFailure(expr) # NoRet THEN ret = FirstFailure(expr)
          ELSE ret = Ok(C5_Rename(expr.name) \o <<"(">> \o joined \o <<")">>)
       /\ (expr.name = <<"a", "b", "s">> /\ ret.exc = "") => StartsWith(ret.str, <<"a", "b", "s", "(">>)
       /\ expr = Function(<<"f">>, <<Generic(<<"x", "*", "*", "2">>), Function(<<"l", "n">>, <<Generic(<<"x">>)>>)>>)
            => ret = Ok(<<"f", "(", "x", "^", "2", ",", " ", "l", "o", "g", "(", "x", ")", ")">>)

C5_Witness ==
  /\ Returned("sympy_to_matlab")
  /\ expr = Function(<<"a", "r", "c", "s", "i", "n">>, <<Generic(<<"x">>)>>)
  /\ ret = Ok(<<"a", "s", "i", "n", "(", "x", ")">>)

\* C6: an expression that is none of Integral, Derivative, Equation or
\* FunctionCall gives its string form with every ** replaced by ^ and every
\* other character, single * and / included, unchanged; a string form
\* without ** is returned as it is.
C6_GenericForm ==
  (Returned("sympy_to_matlab") /\ DispatchTag(expr) = "other") =>
    LET str == sympy_to_str(Dispatched(expr))
    IN /\ ret.exc = ""
       /\ ~Contains(ret.str, <<"*", "*">>)
       /\ Replace(ret.str, <<"^">>, <<"*", "*">>) = str
       /\ CountChar(ret.str, "/") = CountChar(str, "/")
       /\ ~Contains(str, <<"*", "*">>) => ret.str = str
       /\ str = <<"x", "*", "*", "2", " ", "+", " ", "1">> => ret.str = <<"x", "^", "2", " ", "+", " ", "1">>

C6_Witness ==
  /\ Returned("sympy_to_matlab")
  /\ expr = Generic(<<"2", "*", "x", "/", "y">>)
  /\ ret = Ok(<<"2", "*", "x", "/", "y">>)

\* C7: an Equation gives <L> == <R>, L and R the full recursive conversions
\* of the left-hand and the right-hand side, in that order.
C7_EquationForm ==
  (Returned("sympy_to_matlab") /\ expr.tag = "Eq") =>
    LET l == sympy_to_matlab(expr.lhs)
        r == sympy_to_matlab(expr.rhs)
    IN IF FirstFailure(expr) # NoRet THEN ret = FirstFailure(expr)
       ELSE ret = Ok(l.str \o <<" ", "=", "=", " ">> \o r.str)

C7_Witness ==
  /\ Returned("sympy_to_matlab")
  /\ expr = Eq(Derivative(Generic(<<"x", "*", "*", "2">>), VarSlot(sx), 1), Function(<<"a", "r", "c", "s", "i", "n">>, <<Generic(<<"x">>)>>))
  /\ ret = Ok(<<"d", "i", "f", "f", "(", "x", "^", "2", ",", " ", "'", "x", "'", ")", " ", "=", "=", " ", "a", "s", "i", "n", "(", "x", ")">>)

\* whether the conversion of e reaches an empty list or a limit tuple that
\* is neither (var) nor (var, lower, upper): read off the expression alone
RECURSIVE ReachesMalformed(_)
ReachesMalformed(e0) ==
  IF e0 = List(<<>>) THEN TRUE
  ELSE LET e == Dispatched(e0)
           subs == SubConversions(e)
       IN \/ \E i \in 1..Len(subs) : ReachesMalformed(subs[i])
          \/ e.tag = "Integral" /\ Len(e.limits0) \notin {1, 3}

\* the parts C8 shares between the claim as stated and as amended: the empty
\* list raises EmptyExpression, a call fails exactly when it reaches a
\* malformed value, a failing sub-conversion's error is the call's error, and
\* a failed call returns no string
C8_Propagation ==
  /\ expr = List(<<>>) => ret = Raise(EmptyExpression)
  /\ ReachesMalformed(expr) <=> ret.exc # ""
  /\ FirstFailure(Dispatched(expr)) # NoRet => ret = FirstFailure(Dispatched(expr))
  /\ ret.exc # "" => ret.str = <<>>

\* C8 as stated: conversion is all-or-nothing, and a non-empty list converts
\* exactly as its first element.
C8_Original ==
  Returned("sympy_to_matlab") =>
    /\ C8_Propagation
    /\ (expr.tag = "List" /\ expr.elems # <<>>) => ret = sympy_to_matlab(expr.elems[1])

\* C8 as amended: conversion is all-or-nothing; a non-empty list whose first
\* element is not itself a list converts exactly as that element; a first
\* element that is itself a list is not unwrapped again: the call returns the
\* string form of that inner list with ** replaced by ^, also when it is empty.
C8_AllOrNothing ==
  Returned("sympy_to_matlab") =>
    /\ C8_Propagation
    /\ (expr.tag = "List" /\ expr.elems # <<>> /\ expr.elems[1].tag # "List")
         => ret = sympy_to_matlab(expr.elems[1])
    /\ (expr.tag = "List" /\ expr.elems # <<>> /\ expr.elems[1].tag = "List")
         => ret = Ok(Replace(sympy_to_str(expr.elems[1]), <<"*", "*">>, <<"^">>))
    /\ expr = List(<<List(<<>>)>>) => ret = Ok(<<"[", "]">>)

C8_Witness ==
  /\ Returned("sympy_to_matlab")
  /\ expr = Derivative(Function(<<"a", "r", "c", "s", "i", "n">>, <<List(<<>>)>>), VarSlot(sx), 1)
  /\ ret = Raise(EmptyExpression)

KeyOccurs(t) == \E i \in 1..Len(get_all_shortcuts) : Contains(t, get_all_shortcuts[i][1])

\* t is <head> <rest> with head starting d<digits><v> or d<digits>/d<v>, v one of x, y, z
DerivativeForm(t) ==
  /\ Len(SplitFirstSpace(t)) = 2
  /\ LET head == SplitFirstSpace(t)[1]
         r == Drop(head, 1 + Len(DigitRun(Tail(head))))
     IN /\ head # <<>>
        /\ head[1] = "d"
        /\ r # <<>>
        /\ \/ r[1] \in {"x", "y", "z"}
           \/ Len(r) >= 3 /\ r[1] = "/" /\ r[2] = "d" /\ r[3] \in {"x", "y", "z"}

\* C9: convert_shortcut returns a string for every input, and when no key of
\* the table occurs in the input and the input matches no derivative pattern
\* the output is the input; the empty string gives the empty string.
C9_IdentityOnMiss ==
  Returned("convert_shortcut") =>
    /\ (~KeyOccurs(text) /\ ~DerivativeForm(text)) => result = text
    /\ text = <<>> => result = <<>>
    /\ \A i \in 1..Len(result) : result[i] \in STRING

C9_Witness ==
  /\ Returned("convert_shortcut")
  /\ text = <<"d", "2", "w", " ", "x", "^", "2">>
  /\ ~KeyOccurs(text) /\ ~DerivativeForm(text)
  /\ result = text

Hashes(s) == CountChar(s, "#")

\* C10 as stated: no replacement holding # is inserted, so the output holds
\* exactly as many # as the input, and abs or // alone is returned unchanged.
C10_Original ==
  Returned("convert_shortcut") =>
    /\ Hashes(result) = Hashes(text)
    /\ text \in {<<"a", "b", "s">>, <<"/", "/">>} => result = text

\* C10 as amended: no replacement holding # is inserted, so the output never
\* holds more # than the input; it holds exactly as many, except when the
\* derivative branch builds the \frac form, which keeps of the part before
\* the first space only the order and the variable and so drops every # of
\* that part; abs or // alone is returned unchanged.
C10_NoPlaceholderInserted ==
  Returned("convert_shortcut") =>
    /\ Hashes(result) <= Hashes(text)
    /\ Hashes(result) # Hashes(text) =>
         /\ DerivativeForm(text)
         /\ StartsWith(result, <<"\\", "f", "r", "a", "c", "{", "d", "^">>)
         /\ Hashes(result) = Hashes(SplitFirstSpace(text)[2])
    /\ ~DerivativeForm(text) => Hashes(result) = Hashes(text)
    /\ text \in {<<"a", "b", "s">>, <<"/", "/">>} => result = text

C10_Witness ==
  /\ Returned("convert_shortcut")
  /\ text = <<"d", "/", "d", "x", "#", " ", "x", "^", "2">>
  /\ result = <<"\\", "f", "r", "a", "c", "{", "d", "^", "1", "}", "{", "d", "x", "^", "1", "}", " ", "x", "^", "2">>

\* C11: an Integral takes the first entry of its first limit tuple as the
\* variable and gives int(<integrand>, '<var>') for a tuple of one element
\* and int(<integrand>, '<var>', <lower>, <upper>) for (var, lower, upper);
\* an integrand that is itself an Integral is converted recursively, so an
\* integral in an integral gives int(int(..., '<v1>'), '<v2>').
C11_IntegralForm ==
  (Returned("sympy_to_matlab") /\ expr.tag = "Integral" /\ Len(expr.limits0) \in {1, 3}) =>
    LET lim == expr.limits0
        inner == IF expr.integrand.tag = "Integral"
                 THEN sympy_to_matlab(expr.integrand)
                 ELSE Ok(sympy_to_str(expr.integrand))
        head == <<"i", "n", "t", "(">> \o inner.str \o <<",", " ", "'">> \o lim[1] \o <<"'">>
    IN /\ IF inner.exc # "" THEN ret = inner
          ELSE IF Len(lim) = 1 THEN ret = Ok(head \o <<")">>)
          ELSE ret = Ok(head \o <<",", " ">> \o lim[2] \o <<",", " ">> \o lim[3] \o <<")">>)
       /\ expr = Integral(Integral(Generic(<<"x">>), <<<<"x">>>>), <<<<"y">>, <<"a">>, <<"b">>>>)
            => ret = Ok(<<"i", "n", "t", "(", "i", "n", "t", "(", "x", ",", " ", "'", "x", "'", ")", ",", " ", "'", "y", "'", ",", " ", "a", ",", " ", "b", ")">>)
       /\ (expr.integrand.tag = "Integral" /\ ret.exc = "")
            => StartsWith(ret.str, <<"i", "n", "t", "(", "i", "n", "t", "(">>)

C11_Witness ==
  /\ Returned("sympy_to_matlab")
  /\ expr = Integral(Integral(Integral(Generic(<<"x">>), <<<<"x">>, <<"0">>, <<"1">>>>), <<<<"y">>>>), <<<<"x">>>>)
  /\ ret = Ok(<<"i", "n", "t", "(", "i", "n", "t", "(", "i", "n", "t", "(", "x", ",", " ", "'", "x", "'", ",", " ", "0", ",", " ", "1", ")", ",", " ", "'", "y", "'", ")", ",", " ", "'", "x", "'", ")">>)

\* t enters the derivative branch (starts with d, holds a / or has a digit as
\* second character, splits at its first space in two) and the pattern tried
\* on the part before the space does not match it
EntersUnmatched(t) ==
  /\ StartsWith(t, <<"d">>)
  /\ (HasChar(t, "/") \/ (Len(t) >= 2 /\ t[2] \in Digits))
  /\ Len(SplitFirstSpace(t)) = 2
  /\ LET head == SplitFirstSpace(t)[1]
         r == Drop(head, 1 + Len(DigitRun(Tail(head))))
     IN IF HasChar(head, "/")
        THEN ~(Len(r) >= 3 /\ r[1] = "/" /\ r[2] = "d" /\ r[3] \in {"x", "y", "z"})
        ELSE ~(r # <<>> /\ r[1] \in {"x", "y", "z"})

\* C12: when the input enters the derivative branch and the pattern does not
\* match its first part, convert_shortcut does not return there: the table
\* replacements are applied to the text, so a shortcut in it is expanded.
C12_FallsThrough ==
  (Returned("convert_shortcut") /\ EntersUnmatched(text)) =>
    /\ result = ReplaceLoop(text, get_all_shortcuts, 1, Len(get_all_shortcuts))
    /\ text = <<"d", "/", "d", "w", " ", "s", "i", "n", " ", "x">> => result = <<"d", "/", "d", "w", " ", "\\", "s", "i", "n", " ", "x">>

=============================================================================
